---- MODULE Spec2Model ----
(***************************************************************************)
(* EduTrackers: the row-level-security policies, the foreign keys and the  *)
(* profile-provisioning trigger of supabase/migrations, together with the  *)
(* client handlers that issue requests against them.                       *)
(*                                                                         *)
(* A request is one statement sent through the data API on behalf of       *)
(* auth.uid() = uid.  PostgreSQL applies the policies as follows:          *)
(*   INSERT  the new row must pass a WITH CHECK, else the statement fails   *)
(*           (SQLSTATE 42501); constraints are checked afterwards;          *)
(*   UPDATE  rows failing the SELECT or UPDATE USING are skipped without    *)
(*           an error; the new row must pass the WITH CHECK (the USING      *)
(*           when none is written), else the statement fails;               *)
(*   DELETE  rows failing the SELECT or DELETE USING are skipped without    *)
(*           an error;                                                      *)
(*   a table with RLS enabled and no policy for a command denies it.        *)
(***************************************************************************)
EXTENDS Integers, FiniteSets, Sequences, TLC

VARIABLES
    users,                  \* auth.users: the Identities
    profiles,               \* public.profiles
    created,                \* history: the role each Profile was created with
    assignments,            \* public.assignments
    assignment_submissions, \* public.assignment_submissions
    results,                \* public.results
    payments,               \* public.payments
    announcements,          \* public.announcements
    objects,                \* storage.objects of bucket 'assignments'
    nextUser,               \* next fresh auth.users id
    sessions,               \* browser sessions running a submit handler
    scenario,               \* position in the scripted scenario, and its outcomes
    last                    \* the last request and its outcome

vars == <<users, profiles, created, assignments, assignment_submissions, results,
          payments, announcements, objects, nextUser, sessions, scenario,
          last>>

tables == <<assignments, assignment_submissions, results, payments, announcements>>

-----------------------------------------------------------------------------
(* Bounds *)

MaxUsers == 3

MaxRows == 2

MaxDbRows == 3

MaxSessions == 2

MaxPolicyDepth == 2

UserIds == 1..MaxUsers

RowIds == 1..MaxRows

SessionIds == 1..MaxSessions

NULL == "NULL"

-----------------------------------------------------------------------------
(* Helpers *)

Apply(row, patch) ==
    [c \in DOMAIN row |-> IF c \in DOMAIN patch THEN patch[c] ELSE row[c]]

Ids(table) == {r.id : r \in table}

\* gen_random_uuid(): an id no row of the table has
FreshId(table) ==
    CHOOSE i \in 1..(Cardinality(table) + 1) :
        /\ i \notin Ids(table)
        /\ \A j \in 1..(Cardinality(table) + 1) : j \notin Ids(table) => i <= j

Outcome(op, table, uid, outcome) ==
    [op |-> op, table |-> table, uid |-> uid, outcome |-> outcome]

RoleOf(id) ==
    IF \E p \in profiles : p.id = id
    THEN (CHOOSE p \in profiles : p.id = id).role
    ELSE NULL

\* The model's bound on the size of a table and of the database
HasRoom(table) ==
    /\ Cardinality(table) < MaxRows
    /\ Cardinality(assignments) + Cardinality(assignment_submissions)
         + Cardinality(results) + Cardinality(payments) + Cardinality(announcements)
       < MaxDbRows

-----------------------------------------------------------------------------
(* Schema: the user_role enum *)

user_role == {"student", "teacher"}

-----------------------------------------------------------------------------
(* Policies *)

is_teacher_any_role(user_id) == \E p \in profiles : p.id = user_id

\* SECURITY DEFINER: the SELECT inside runs as the function's owner, past the policies
is_teacher(user_id) ==
    \E p \in profiles : p.id = user_id /\ p.role = "teacher"

profiles_select_own(uid, row) == uid = row.id

profiles_select_teachers_dropped(uid, row) == FALSE

profiles_select_teachers(uid, row) == is_teacher(uid)

profiles_select(uid, row) ==
    profiles_select_own(uid, row) \/ profiles_select_teachers(uid, row)

profiles_update_own(uid, row) == uid = row.id

\* The sub-select "EXISTS (SELECT 1 FROM profiles WHERE profiles.id = auth.uid()
\* AND profiles.role = 'teacher')" of the policies: it runs as the requester, so it
\* sees the profiles the requester may select.
VisibleProfiles(uid) == {p \in profiles : profiles_select(uid, p)}

teacher_exists(uid) ==
    \E p \in {q \in profiles : profiles_select(uid, q)} :
        p.id = uid /\ p.role = "teacher"

-----------------------------------------------------------------------------
(* Account provisioning *)

\* (NEW.raw_user_meta_data->>'role')::user_role : the cast fails on any other text
CastRoleFails(meta) == meta.role # NULL /\ meta.role \notin user_role

handle_new_user_no_default(new, meta) ==
    [id          |-> new.id,
     email       |-> new.email,
     full_name   |-> meta.full_name,
     role        |-> IF meta.role # NULL THEN meta.role ELSE "student",
     roll_number |-> NULL,
     course      |-> NULL,
     department  |-> NULL,
     phone       |-> NULL]

\* INSERT INTO public.profiles (id, email, full_name, role): the other columns
\* are left NULL
handle_new_user(new, meta) ==
    [id          |-> new.id,
     email       |-> new.email,
     full_name   |-> IF meta.full_name # NULL THEN meta.full_name ELSE "User",
     role        |-> IF meta.role # NULL THEN meta.role ELSE "student",
     roll_number |-> NULL,
     course      |-> NULL,
     department  |-> NULL,
     phone       |-> NULL]

\* SignUp with the trigger on_auth_user_created missing
SignUp_no_trigger(email, meta) ==
    /\ nextUser <= MaxUsers
    /\ users' = users \cup {[id |-> nextUser, email |-> email]}
    /\ nextUser' = nextUser + 1
    /\ last' = Outcome("signup", "users", nextUser, "ok")
    /\ UNCHANGED <<profiles, created, tables, objects, sessions>>

\* SignUp with a failure of the trigger not undoing the insert into auth.users
SignUp_not_atomic(email, meta) ==
    /\ nextUser <= MaxUsers
    /\ LET new == [id |-> nextUser, email |-> email]
       IN /\ users' = users \cup {new}
          /\ nextUser' = nextUser + 1
          /\ IF CastRoleFails(meta)
             THEN /\ last' = Outcome("signup", "users", new.id, "error")
                  /\ UNCHANGED <<profiles, created>>
             ELSE /\ profiles' = profiles \cup {handle_new_user(new, meta)}
                  /\ created' = created \cup
                       {[id |-> new.id, role |-> handle_new_user(new, meta).role]}
                  /\ last' = Outcome("signup", "users", new.id, "ok")
    /\ UNCHANGED <<tables, objects, sessions>>

\* auth.signUp: INSERT INTO auth.users, then the AFTER INSERT trigger
\* on_auth_user_created in the same transaction.
SignUp(email, meta) ==
    /\ nextUser <= MaxUsers
    /\ LET new == [id |-> nextUser, email |-> email]
       IN IF CastRoleFails(meta) \/ new.id \in Ids(profiles)
          THEN /\ last' = Outcome("signup", "users", new.id, "error")
               /\ UNCHANGED <<users, profiles, created, nextUser>>
          ELSE /\ users' = users \cup {new}
               /\ profiles' = profiles \cup {handle_new_user(new, meta)}
               /\ created' = created \cup
                    {[id |-> new.id, role |-> handle_new_user(new, meta).role]}
               /\ nextUser' = nextUser + 1
               /\ last' = Outcome("signup", "users", new.id, "ok")
    /\ UNCHANGED <<tables, objects, sessions>>

\* The metadata Auth.handleSignup builds from its form; a key it leaves out reads NULL
handleSignupMetadata(form) ==
    [full_name   |-> form.fullName,
     role        |-> form.role,
     roll_number |-> IF form.role = "student" THEN form.rollNumber ELSE NULL,
     course      |-> IF form.role = "student" THEN form.course ELSE NULL,
     department  |-> IF form.role = "student" THEN NULL ELSE form.department]

\* Auth.handleSignup: the form's validation, then auth.signUp with the metadata
handleSignup(form) ==
    IF \/ form.fullName = NULL \/ form.email = NULL \/ form.role = NULL
       \/ (form.role = "student" /\ form.rollNumber = NULL)
       \/ (form.role = "teacher" /\ form.department = NULL)
    THEN /\ last' = Outcome("signup", "form", 0, "invalid")
         /\ UNCHANGED <<users, profiles, created, tables, objects, nextUser, sessions>>
    ELSE SignUp(form.email, handleSignupMetadata(form))

\* Auth.handleSubmit, sign-up branch: auth.signUp({ email, password }) carries no
\* metadata; on success the form's name and role go into an insert into profiles,
\* whose result is not read, and "Account created!" is shown.
Auth_handleSubmit(form) ==
    /\ nextUser <= MaxUsers
    /\ LET new  == [id |-> nextUser, email |-> form.email]
           meta == [full_name |-> NULL, role |-> NULL]
       IN IF CastRoleFails(meta) \/ new.id \in Ids(profiles)
          THEN /\ last' = [op |-> "signup", table |-> "users", uid |-> new.id,
                           outcome |-> "error", toast |-> "error"]
               /\ UNCHANGED <<users, profiles, created, nextUser>>
          ELSE /\ users' = users \cup {new}
               /\ profiles' = profiles \cup {handle_new_user(new, meta)}
               /\ created' = created \cup
                    {[id |-> new.id, role |-> handle_new_user(new, meta).role]}
               /\ nextUser' = nextUser + 1
               \* profiles.insert({ id, email, full_name: name, role }): no INSERT policy
               /\ last' = [op |-> "insert", table |-> "profiles", uid |-> new.id,
                           outcome |-> "rls_violation", toast |-> "success"]
    /\ UNCHANGED <<tables, objects, sessions>>

\* Removal of an Identity; every REFERENCES ... ON DELETE CASCADE follows.
DeleteUser(id) ==
    /\ id \in Ids(users)
    /\ users' = {u \in users : u.id # id}
    /\ profiles' = {p \in profiles : p.id # id}
    /\ created' = {c \in created : c.id # id}
    /\ assignments' = {a \in assignments : a.teacher_id # id}
    /\ assignment_submissions' =
         {s \in assignment_submissions :
            /\ s.student_id # id
            /\ s.assignment_id \in Ids(assignments')}
    /\ results' = {r \in results : r.student_id # id /\ r.teacher_id # id}
    /\ payments' = {p \in payments : p.student_id # id}
    /\ last' = Outcome("delete", "users", id, "ok")
    /\ UNCHANGED <<announcements, objects, nextUser, sessions>>

-----------------------------------------------------------------------------
(* Requests on profiles *)

\* supabase.from('profiles').update(patch).eq('id', id)
UpdateProfile(uid, id, patch) ==
    LET targets == {p \in profiles :
                      p.id = id /\ profiles_select(uid, p) /\ profiles_update_own(uid, p)}
        news    == {Apply(p, patch) : p \in targets}
        outcome ==
            IF targets = {} THEN "no_rows"
            ELSE IF \E n \in news : n.role \notin user_role THEN "invalid_enum"
            ELSE IF \E n \in news : ~profiles_update_own(uid, n) THEN "rls_violation"
            ELSE IF \E n \in news : n.id \in Ids(profiles \ targets) THEN "unique_violation"
            ELSE IF \E n \in news : n.id \notin Ids(users) THEN "fk_violation"
            ELSE "ok"
    IN /\ profiles' = IF outcome = "ok" THEN (profiles \ targets) \cup news ELSE profiles
       /\ last' = Outcome("update", "profiles", uid, outcome)
       /\ UNCHANGED <<users, created, tables, objects, nextUser, sessions>>

\* supabase.from('profiles').insert(row): RLS is enabled and no INSERT policy exists
InsertProfile(uid, row) ==
    /\ last' = Outcome("insert", "profiles", uid, "rls_violation")
    /\ UNCHANGED <<users, profiles, created, tables, objects, nextUser, sessions>>

\* supabase.from('profiles').delete().eq('id', id): no DELETE policy exists
DeleteProfile(uid, id) ==
    /\ last' = Outcome("delete", "profiles", uid, "no_rows")
    /\ UNCHANGED <<users, profiles, created, tables, objects, nextUser, sessions>>

\* supabase.rpc('is_teacher', { user_id: id }) sent by uid
rpc_is_teacher(uid, id) ==
    /\ last' = [op |-> "rpc", table |-> "is_teacher", uid |-> uid,
                outcome |-> IF is_teacher(id) THEN "true" ELSE "false", arg |-> id]
    /\ UNCHANGED <<users, profiles, created, tables, objects, nextUser, sessions>>

-----------------------------------------------------------------------------
(* Policies and requests: assignments *)

assignments_select(uid, row) == TRUE

assignments_insert_check_any(uid, row) == TRUE

assignments_insert_check(uid, row) == teacher_exists(uid)

assignments_update_using_teachers(uid, row) == teacher_exists(uid)

assignments_update_using(uid, row) == row.teacher_id = uid

assignments_delete_using(uid, row) == row.teacher_id = uid

VisibleAssignments(uid) == {a \in assignments : assignments_select(uid, a)}

\* supabase.from('assignments').insert(row)
InsertAssignment(uid, row) ==
    LET new     == Apply([id |-> FreshId(assignments), teacher_id |-> 0, title |-> NULL,
                          due_date |-> NULL, file_url |-> NULL], row)
        outcome ==
            IF ~assignments_insert_check(uid, new) THEN "rls_violation"
            ELSE IF new.teacher_id \notin Ids(profiles) THEN "fk_violation"
            ELSE "ok"
    IN /\ outcome = "ok" => HasRoom(assignments)
       /\ assignments' = IF outcome = "ok" THEN assignments \cup {new} ELSE assignments
       /\ last' = Outcome("insert", "assignments", uid, outcome)
       /\ UNCHANGED <<users, profiles, created, assignment_submissions, results,
                      payments, announcements, objects, nextUser, sessions>>

\* supabase.from('assignments').update(patch).eq('id', id)
UpdateAssignment(uid, id, patch) ==
    LET targets == {a \in assignments :
                      /\ a.id = id
                      /\ assignments_select(uid, a)
                      /\ assignments_update_using(uid, a)}
        news    == {Apply(a, patch) : a \in targets}
        outcome ==
            IF targets = {} THEN "no_rows"
            ELSE IF \E n \in news : ~assignments_update_using(uid, n) THEN "rls_violation"
            ELSE IF \E n \in news : n.teacher_id \notin Ids(profiles) THEN "fk_violation"
            ELSE "ok"
    IN /\ assignments' =
            IF outcome = "ok" THEN (assignments \ targets) \cup news ELSE assignments
       /\ last' = Outcome("update", "assignments", uid, outcome)
       /\ UNCHANGED <<users, profiles, created, assignment_submissions, results,
                      payments, announcements, objects, nextUser, sessions>>

\* supabase.from('assignments').delete().eq('id', id); submissions cascade
DeleteAssignment(uid, id) ==
    LET targets == {a \in assignments :
                      /\ a.id = id
                      /\ assignments_select(uid, a)
                      /\ assignments_delete_using(uid, a)}
    IN /\ assignments' = assignments \ targets
       /\ assignment_submissions' =
            {s \in assignment_submissions : s.assignment_id \notin Ids(targets)}
       /\ last' = Outcome("delete", "assignments", uid,
                          IF targets = {} THEN "no_rows" ELSE "ok")
       /\ UNCHANGED <<users, profiles, created, results, payments, announcements,
                      objects, nextUser, sessions>>

-----------------------------------------------------------------------------
(* Policies and requests: assignment_submissions *)

submissions_select_own_all(uid, row) == TRUE

submissions_select_own(uid, row) == row.student_id = uid

submissions_select_teachers(uid, row) == teacher_exists(uid)

submissions_select(uid, row) ==
    submissions_select_own(uid, row) \/ submissions_select_teachers(uid, row)

submissions_insert_check(uid, row) == row.student_id = uid

submissions_update_using_own(uid, row) == teacher_exists(uid) \/ row.student_id = uid

submissions_update_using(uid, row) == teacher_exists(uid)

submissions_unique_missing(new) == TRUE

\* UNIQUE(assignment_id, student_id)
submissions_unique(new) ==
    ~\E s \in assignment_submissions :
        s.assignment_id = new.assignment_id /\ s.student_id = new.student_id

VisibleSubmissions(uid) ==
    {s \in assignment_submissions : submissions_select(uid, s)}

\* The outcome of INSERT INTO assignment_submissions: the policy's WITH CHECK, then
\* the unique index, then the foreign keys
SubmissionInsertOutcome(uid, new) ==
    IF ~submissions_insert_check(uid, new) THEN "rls_violation"
    ELSE IF ~submissions_unique(new) THEN "unique_violation"
    ELSE IF new.assignment_id \notin Ids(assignments) THEN "fk_violation"
    ELSE IF new.student_id \notin Ids(profiles) THEN "fk_violation"
    ELSE "ok"

NewSubmission(row) ==
    Apply([id |-> FreshId(assignment_submissions), assignment_id |-> 0,
           student_id |-> 0, file_url |-> 0, status |-> "submitted", grade |-> NULL,
           feedback |-> NULL], row)

\* supabase.from('assignment_submissions').insert(row)
InsertSubmission(uid, row) ==
    LET new     == NewSubmission(row)
        outcome == SubmissionInsertOutcome(uid, new)
    IN /\ outcome = "ok" => HasRoom(assignment_submissions)
       /\ assignment_submissions' =
            IF outcome = "ok" THEN assignment_submissions \cup {new}
            ELSE assignment_submissions
       /\ last' = Outcome("insert", "assignment_submissions", uid, outcome)
       /\ UNCHANGED <<users, profiles, created, assignments, results, payments,
                      announcements, objects, nextUser, sessions>>

\* supabase.from('assignment_submissions').update(patch).eq('id', id)
UpdateSubmission(uid, id, patch) ==
    LET targets == {s \in assignment_submissions :
                      /\ s.id = id
                      /\ submissions_select(uid, s)
                      /\ submissions_update_using(uid, s)}
        news    == {Apply(s, patch) : s \in targets}
        outcome ==
            IF targets = {} THEN "no_rows"
            ELSE IF \E n \in news : ~submissions_update_using(uid, n) THEN "rls_violation"
            ELSE IF \E n \in news : \E o \in assignment_submissions \ targets :
                       o.assignment_id = n.assignment_id /\ o.student_id = n.student_id
                 THEN "unique_violation"
            ELSE IF \E n \in news : n.assignment_id \notin Ids(assignments)
                 THEN "fk_violation"
            ELSE IF \E n \in news : n.student_id \notin Ids(profiles) THEN "fk_violation"
            ELSE "ok"
    IN /\ assignment_submissions' =
            IF outcome = "ok" THEN (assignment_submissions \ targets) \cup news
            ELSE assignment_submissions
       /\ last' = Outcome("update", "assignment_submissions", uid, outcome)
       /\ UNCHANGED <<users, profiles, created, assignments, results, payments,
                      announcements, objects, nextUser, sessions>>

\* supabase.from('assignment_submissions').delete().eq('id', id): no DELETE policy
DeleteSubmission(uid, id) ==
    /\ last' = Outcome("delete", "assignment_submissions", uid, "no_rows")
    /\ UNCHANGED <<users, profiles, created, tables, objects, nextUser, sessions>>

-----------------------------------------------------------------------------
(* The submit handler of a browser session, one step per await *)

Idle == [pc |-> "idle"]

\* The list is rendered from the fetched rows; the Submit button of an assignment
\* is offered only while the fetched submissions hold none for it.
OpenSubmitDialog(c, uid, assignmentId) ==
    /\ sessions[c].pc = "idle"
    /\ uid \in Ids(profiles)
    /\ assignmentId \in Ids(VisibleAssignments(uid))
    /\ ~\E s \in VisibleSubmissions(uid) :
          s.student_id = uid /\ s.assignment_id = assignmentId
    /\ sessions' = [sessions EXCEPT ![c] =
                      [pc |-> "selected", uid |-> uid, assignmentId |-> assignmentId]]
    /\ last' = Outcome("select", "assignment_submissions", uid, "ok")
    /\ UNCHANGED <<users, profiles, created, tables, objects, nextUser>>

\* handleSubmit up to the first await: supabase.storage.from('assignments').upload
SubmitUpload(c) ==
    /\ sessions[c].pc = "selected"
    /\ LET stamp == Cardinality(objects) + 1
       IN /\ objects' = objects \cup
                {[owner |-> sessions[c].uid, folder |-> sessions[c].assignmentId,
                  stamp |-> stamp]}
          /\ sessions' = [sessions EXCEPT ![c] =
                [pc |-> "uploaded", uid |-> sessions[c].uid,
                 assignmentId |-> sessions[c].assignmentId, file_url |-> stamp]]
    /\ last' = Outcome("upload", "objects", sessions[c].uid, "ok")
    /\ UNCHANGED <<users, profiles, created, tables, nextUser>>

\* handleSubmit after the upload: the insert, then the toast
SubmitInsert(c) ==
    /\ sessions[c].pc = "uploaded"
    /\ LET uid     == sessions[c].uid
           new     == NewSubmission([assignment_id |-> sessions[c].assignmentId,
                                     student_id |-> uid,
                                     file_url |-> sessions[c].file_url])
           outcome == SubmissionInsertOutcome(uid, new)
       IN /\ outcome = "ok" => HasRoom(assignment_submissions)
          /\ assignment_submissions' =
               IF outcome = "ok" THEN assignment_submissions \cup {new}
               ELSE assignment_submissions
          /\ last' = Outcome("insert", "assignment_submissions", uid, outcome)
          /\ sessions' = [sessions EXCEPT ![c] =
                [pc |-> "done", uid |-> uid, assignmentId |-> sessions[c].assignmentId,
                 toast |-> IF outcome = "ok" THEN "success" ELSE "error"]]
    /\ UNCHANGED <<users, profiles, created, assignments, results, payments,
                   announcements, objects, nextUser>>

-----------------------------------------------------------------------------
(* Policies and requests: results *)

results_select_own_all(uid, row) == TRUE

results_select_own(uid, row) == row.student_id = uid

results_select_teachers(uid, row) == teacher_exists(uid)

results_select(uid, row) ==
    results_select_own(uid, row) \/ results_select_teachers(uid, row)

results_insert_check(uid, row) == teacher_exists(uid)

results_update_using_teachers(uid, row) == teacher_exists(uid)

results_update_using(uid, row) == row.teacher_id = uid

VisibleResults(uid) == {r \in results : results_select(uid, r)}

\* supabase.from('results').insert(row)
InsertResult(uid, row) ==
    LET new     == Apply([id |-> FreshId(results), student_id |-> 0, teacher_id |-> 0,
                          marks_obtained |-> 0, total_marks |-> 0], row)
        outcome ==
            IF ~results_insert_check(uid, new) THEN "rls_violation"
            ELSE IF new.student_id \notin Ids(profiles) THEN "fk_violation"
            ELSE IF new.teacher_id \notin Ids(profiles) THEN "fk_violation"
            ELSE "ok"
    IN /\ outcome = "ok" => HasRoom(results)
       /\ results' = IF outcome = "ok" THEN results \cup {new} ELSE results
       /\ last' = Outcome("insert", "results", uid, outcome)
       /\ UNCHANGED <<users, profiles, created, assignments, assignment_submissions,
                      payments, announcements, objects, nextUser, sessions>>

\* parseFloat on the text of the marks inputs (type="number", required)
parseFloat(text) ==
    CASE text = "-5" -> 0 - 5
      [] text = "0"  -> 0
      [] text = "40" -> 40
      [] text = "50" -> 50

\* Results.handleSubmit: the teacher's "Add Result" form; returns early without a
\* loaded profile
Results_handleSubmit(uid, formData) ==
    /\ uid \in Ids(profiles)
    /\ InsertResult(uid, [teacher_id     |-> uid,
                          student_id     |-> formData.student_id,
                          marks_obtained |-> parseFloat(formData.marks_obtained),
                          total_marks    |-> parseFloat(formData.total_marks)])

\* supabase.from('results').update(patch).eq('id', id)
UpdateResult(uid, id, patch) ==
    LET targets == {r \in results :
                      r.id = id /\ results_select(uid, r) /\ results_update_using(uid, r)}
        news    == {Apply(r, patch) : r \in targets}
        outcome ==
            IF targets = {} THEN "no_rows"
            ELSE IF \E n \in news : ~results_update_using(uid, n) THEN "rls_violation"
            ELSE IF \E n \in news : ~results_select(uid, n) THEN "rls_violation"
            ELSE IF \E n \in news : n.student_id \notin Ids(profiles) THEN "fk_violation"
            ELSE IF \E n \in news : n.teacher_id \notin Ids(profiles) THEN "fk_violation"
            ELSE "ok"
    IN /\ results' = IF outcome = "ok" THEN (results \ targets) \cup news ELSE results
       /\ last' = Outcome("update", "results", uid, outcome)
       /\ UNCHANGED <<users, profiles, created, assignments, assignment_submissions,
                      payments, announcements, objects, nextUser, sessions>>

\* supabase.from('results').delete().eq('id', id): no DELETE policy exists
DeleteResult(uid, id) ==
    /\ last' = Outcome("delete", "results", uid, "no_rows")
    /\ UNCHANGED <<users, profiles, created, tables, objects, nextUser, sessions>>

-----------------------------------------------------------------------------
(* The 'Average Score' of the two student views; a number is a fraction num/den *)

Rat(num, den) == [num |-> num, den |-> den]

RatAdd(x, y) == Rat(x.num * y.den + y.num * x.den, x.den * y.den)

RatDiv(x, n) == Rat(x.num, x.den * n)

RatEq(x, y) == x.num * y.den = y.num * x.den

\* Number.prototype.toFixed(digits) of a non-negative number: the nearest decimal
\* with that many digits, the larger one on a tie; the text is kept as its digits
\* count and the integer it shows without the point. A division by zero shows no
\* number.
toFixed(x, digits) ==
    LET scale == IF digits = 1 THEN 10 ELSE 100
    IN [digits |-> digits,
        scaled |-> IF x.den = 0 THEN NULL
                   ELSE (2 * x.num * scale + x.den) \div (2 * x.den)]

RECURSIVE SumPercentages(_)
\* results.reduce((acc, r) => acc + (r.marks_obtained / r.total_marks) * 100, 0)
SumPercentages(list) ==
    IF list = {} THEN Rat(0, 1)
    ELSE LET r == CHOOSE x \in list : TRUE
         IN RatAdd(SumPercentages(list \ {r}), Rat(r.marks_obtained * 100, r.total_marks))

RECURSIVE SumColumn(_, _)
\* results.reduce((acc, r) => acc + r[column], 0)
SumColumn(list, column) ==
    IF list = {} THEN 0
    ELSE LET r == CHOOSE x \in list : TRUE
         IN r[column] + SumColumn(list \ {r}, column)

\* Results: the sum of the percentages over results.length
Results_Mean(list) == RatDiv(SumPercentages(list), Cardinality(list))

\* StudentResults: (obtained / total) * 100 of the two sums
StudentResults_Ratio(list) ==
    Rat(SumColumn(list, "marks_obtained") * 100, SumColumn(list, "total_marks"))

\* getPercentage(obtained, total) of StudentResults
getPercentage(obtained, total) == toFixed(Rat(obtained * 100, total), 2)

\* Results, "Overall Performance" card: shown to a non-teacher with results
Results_AverageScore(uid) ==
    LET list == VisibleResults(uid)
    IN /\ uid \in Ids(profiles)
       /\ RoleOf(uid) # "teacher"
       /\ list # {}
       /\ last' = [op |-> "render", table |-> "Results", uid |-> uid, outcome |-> "ok",
                   value |-> Results_Mean(list),
                   text  |-> toFixed(Results_Mean(list), 1)]
       /\ UNCHANGED <<users, profiles, created, tables, objects, nextUser, sessions>>

\* StudentResults, "Overall Performance" card over the rows fetched with
\* .eq('student_id', profile.id)
StudentResults_AverageScore(uid) ==
    LET list == {r \in VisibleResults(uid) : r.student_id = uid}
    IN /\ uid \in Ids(profiles)
       /\ list # {}
       /\ last' = [op |-> "render", table |-> "StudentResults", uid |-> uid,
                   outcome |-> "ok",
                   value |-> StudentResults_Ratio(list),
                   text  |-> getPercentage(SumColumn(list, "marks_obtained"),
                                           SumColumn(list, "total_marks"))]
       /\ UNCHANGED <<users, profiles, created, tables, objects, nextUser, sessions>>

-----------------------------------------------------------------------------
(* Policies and requests: payments *)

payments_select_own_students(uid, row) == RoleOf(uid) = "student"

payments_select_own(uid, row) == row.student_id = uid

payments_select_teachers(uid, row) == teacher_exists(uid)

payments_manage_or_own(uid, row) == teacher_exists(uid) \/ row.student_id = uid

\* FOR ALL USING (...): the USING of SELECT, UPDATE and DELETE, and, no WITH CHECK
\* being written, the check of INSERT and UPDATE
payments_manage(uid, row) == teacher_exists(uid)

payments_select(uid, row) ==
    \/ payments_select_own(uid, row)
    \/ payments_select_teachers(uid, row)
    \/ payments_manage(uid, row)

VisiblePayments(uid) == {p \in payments : payments_select(uid, p)}

\* supabase.from('payments').insert(row); status defaults to 'pending'
InsertPayment(uid, row) ==
    LET new     == Apply([id |-> FreshId(payments), student_id |-> 0, amount |-> 0,
                          status |-> "pending", paid_date |-> NULL], row)
        outcome ==
            IF ~payments_manage(uid, new) THEN "rls_violation"
            ELSE IF new.student_id \notin Ids(profiles) THEN "fk_violation"
            ELSE "ok"
    IN /\ outcome = "ok" => HasRoom(payments)
       /\ payments' = IF outcome = "ok" THEN payments \cup {new} ELSE payments
       /\ last' = Outcome("insert", "payments", uid, outcome)
       /\ UNCHANGED <<users, profiles, created, assignments, assignment_submissions,
                      results, announcements, objects, nextUser, sessions>>

\* The outcomes that reach the caller as an error object; a statement that matched
\* no row returns none
ErrorOutcomes ==
    {"rls_violation", "unique_violation", "fk_violation", "invalid_enum", "error"}

\* UPDATE payments SET patch WHERE id = id, as uid: its outcome and the table after it
PaymentUpdate(uid, id, patch) ==
    LET targets == {p \in payments :
                      p.id = id /\ payments_select(uid, p) /\ payments_manage(uid, p)}
        news    == {Apply(p, patch) : p \in targets}
        outcome ==
            IF targets = {} THEN "no_rows"
            ELSE IF \E n \in news : ~payments_manage(uid, n) THEN "rls_violation"
            ELSE IF \E n \in news : n.student_id \notin Ids(profiles) THEN "fk_violation"
            ELSE "ok"
    IN [outcome |-> outcome,
        rows    |-> IF outcome = "ok" THEN (payments \ targets) \cup news ELSE payments]

\* supabase.from('payments').update(patch).eq('id', id)
UpdatePayment(uid, id, patch) ==
    /\ payments' = PaymentUpdate(uid, id, patch).rows
    /\ last' = Outcome("update", "payments", uid, PaymentUpdate(uid, id, patch).outcome)
    /\ UNCHANGED <<users, profiles, created, assignments, assignment_submissions,
                   results, announcements, objects, nextUser, sessions>>

\* supabase.from('payments').delete().eq('id', id)
DeletePayment(uid, id) ==
    LET targets == {p \in payments :
                      p.id = id /\ payments_select(uid, p) /\ payments_manage(uid, p)}
    IN /\ payments' = payments \ targets
       /\ last' = Outcome("delete", "payments", uid,
                          IF targets = {} THEN "no_rows" ELSE "ok")
       /\ UNCHANGED <<users, profiles, created, assignments, assignment_submissions,
                      results, announcements, objects, nextUser, sessions>>

PayNowPatch == [status |-> "paid", paid_date |-> "today"]

\* StudentPayments.handlePayment / Payments.handlePayment ("Pay Now"): the update,
\* then "if (error) throw error" and the toast
handlePayment(uid, paymentId) ==
    LET outcome == PaymentUpdate(uid, paymentId, PayNowPatch).outcome
    IN /\ payments' = PaymentUpdate(uid, paymentId, PayNowPatch).rows
       /\ last' = [op |-> "update", table |-> "payments", uid |-> uid,
                   outcome |-> outcome,
                   toast |-> IF outcome \in ErrorOutcomes THEN "error" ELSE "success"]
       /\ UNCHANGED <<users, profiles, created, assignments, assignment_submissions,
                      results, announcements, objects, nextUser, sessions>>

-----------------------------------------------------------------------------
(* Policies and requests: announcements *)

announcements_select(uid, row) == TRUE

announcements_insert_check(uid, row) == teacher_exists(uid)

announcements_delete_using_teachers(uid, row) == teacher_exists(uid)

announcements_delete_using(uid, row) == row.teacher_id = uid

\* supabase.from('announcements').insert(row); teacher_id references nothing
InsertAnnouncement(uid, row) ==
    LET new     == Apply([id |-> FreshId(announcements), teacher_id |-> 0,
                          title |-> NULL], row)
        outcome == IF ~announcements_insert_check(uid, new) THEN "rls_violation" ELSE "ok"
    IN /\ outcome = "ok" => HasRoom(announcements)
       /\ announcements' = IF outcome = "ok" THEN announcements \cup {new} ELSE announcements
       /\ last' = Outcome("insert", "announcements", uid, outcome)
       /\ UNCHANGED <<users, profiles, created, assignments, assignment_submissions,
                      results, payments, objects, nextUser, sessions>>

\* supabase.from('announcements').update(patch).eq('id', id): no UPDATE policy exists
UpdateAnnouncement(uid, id, patch) ==
    /\ last' = Outcome("update", "announcements", uid, "no_rows")
    /\ UNCHANGED <<users, profiles, created, tables, objects, nextUser, sessions>>

\* Announcements.handleDelete: supabase.from('announcements').delete().eq('id', id)
DeleteAnnouncement(uid, id) ==
    LET targets == {a \in announcements :
                      /\ a.id = id
                      /\ announcements_select(uid, a)
                      /\ announcements_delete_using(uid, a)}
    IN /\ announcements' = announcements \ targets
       /\ last' = Outcome("delete", "announcements", uid,
                          IF targets = {} THEN "no_rows" ELSE "ok")
       /\ UNCHANGED <<users, profiles, created, assignments, assignment_submissions,
                      results, payments, objects, nextUser, sessions>>

-----------------------------------------------------------------------------
(* Evaluation of the policies, with the nesting of sub-selects made explicit *)

\* The policies in force after the three migrations
PolicyCatalog ==
    {"profiles_select_own", "profiles_select_teachers", "profiles_update_own",
     "assignments_select", "assignments_insert_check", "assignments_update_using",
     "assignments_delete_using",
     "submissions_select_own", "submissions_select_teachers",
     "submissions_insert_check", "submissions_update_using",
     "results_select_own", "results_select_teachers", "results_insert_check",
     "results_update_using",
     "payments_select_own", "payments_select_teachers", "payments_manage",
     "announcements_select", "announcements_insert_check",
     "announcements_delete_using"}

\* The policies whose expression is EXISTS (SELECT 1 FROM profiles WHERE ...)
TeacherSubselectPolicies ==
    {"assignments_insert_check", "submissions_select_teachers",
     "submissions_update_using", "results_select_teachers", "results_insert_check",
     "payments_select_teachers", "payments_manage", "announcements_insert_check"}

ProfilesSelectPolicies == {"profiles_select_own", "profiles_select_teachers"}

\* What each policy expression decides, as the requests above use it
DirectPolicy(name, uid, row) ==
    CASE name = "profiles_select_own"         -> profiles_select_own(uid, row)
      [] name = "profiles_select_teachers"    -> profiles_select_teachers(uid, row)
      [] name = "profiles_update_own"         -> profiles_update_own(uid, row)
      [] name = "assignments_select"          -> assignments_select(uid, row)
      [] name = "assignments_insert_check"    -> assignments_insert_check(uid, row)
      [] name = "assignments_update_using"    -> assignments_update_using(uid, row)
      [] name = "assignments_delete_using"    -> assignments_delete_using(uid, row)
      [] name = "submissions_select_own"      -> submissions_select_own(uid, row)
      [] name = "submissions_select_teachers" -> submissions_select_teachers(uid, row)
      [] name = "submissions_insert_check"    -> submissions_insert_check(uid, row)
      [] name = "submissions_update_using"    -> submissions_update_using(uid, row)
      [] name = "results_select_own"          -> results_select_own(uid, row)
      [] name = "results_select_teachers"     -> results_select_teachers(uid, row)
      [] name = "results_insert_check"        -> results_insert_check(uid, row)
      [] name = "results_update_using"        -> results_update_using(uid, row)
      [] name = "payments_select_own"         -> payments_select_own(uid, row)
      [] name = "payments_select_teachers"    -> payments_select_teachers(uid, row)
      [] name = "payments_manage"             -> payments_manage(uid, row)
      [] name = "announcements_select"        -> announcements_select(uid, row)
      [] name = "announcements_insert_check"  -> announcements_insert_check(uid, row)
      [] name = "announcements_delete_using"  -> announcements_delete_using(uid, row)

RECURSIVE EvalPolicy(_, _, _, _)

\* EXISTS (SELECT 1 FROM profiles WHERE profiles.id = auth.uid() AND profiles.role =
\* 'teacher'): every row of profiles the sub-select scans is put to the SELECT
\* policies of profiles, one level deeper
TeacherSubselect(uid, depth) ==
    LET decisions(p) == {EvalPolicy(q, uid, p, depth + 1) : q \in ProfilesSelectPolicies}
    IN IF \E p \in profiles : "recursion" \in decisions(p) THEN "recursion"
       ELSE IF \E p \in profiles :
                 "allow" \in decisions(p) /\ p.id = uid /\ p.role = "teacher"
       THEN "allow"
       ELSE "deny"

\* "Teachers can view all profiles" as the first migration wrote it
TeachersCanViewAllProfiles_subselect(uid, depth) == TeacherSubselect(uid, depth)

\* "Teachers can view all profiles": USING (is_teacher(auth.uid())); the function
\* reads profiles past the policies, so nothing is evaluated one level deeper
TeachersCanViewAllProfiles(uid, depth) == IF is_teacher(uid) THEN "allow" ELSE "deny"

\* The decision of a policy for requester uid on a row, reached at nesting depth
\* depth; "recursion" when the nesting does not end (SQLSTATE 42P17)
EvalPolicy(name, uid, row, depth) ==
    IF depth > MaxPolicyDepth THEN "recursion"
    ELSE IF name = "profiles_select_teachers" THEN TeachersCanViewAllProfiles(uid, depth)
    ELSE IF name \in TeacherSubselectPolicies THEN TeacherSubselect(uid, depth)
    ELSE IF DirectPolicy(name, uid, row) THEN "allow"
    ELSE "deny"

\* The key columns the policy expressions read of a row
CandidateRows == {[id |-> i, teacher_id |-> i, student_id |-> i] : i \in UserIds}

-----------------------------------------------------------------------------
(* Inputs *)

Emails == {"a@edu"}

SignupMeta ==
    {[full_name |-> NULL, role |-> r] : r \in {NULL, "student", "teacher", "admin"}}

SignupEmails == {"a@edu", "b@edu"}

\* What the signup form can hold when it is submitted
SignupForms ==
    {[fullName |-> "Ann", email |-> e, role |-> r, rollNumber |-> n, course |-> c,
      department |-> "D1"] :
        e \in SignupEmails, r \in user_role, n \in {NULL, "R1"}, c \in {NULL, "C1"}}

\* Metadata of a signup sent to the auth endpoint directly
ProvisioningMeta ==
    {[full_name |-> n, role |-> r, roll_number |-> NULL, course |-> NULL,
      department |-> NULL] :
        n \in {NULL, "Bob"}, r \in {NULL, "student", "teacher", "admin"}}

\* StudentProfile.handleSubmit sends the form fields; the other patches are what
\* any holder of a session can send through the same endpoint.
ProfileFormPatch ==
    [full_name |-> "Ann", roll_number |-> "R1", course |-> "C1", phone |-> "P1"]

ProfilePatches ==
    {ProfileFormPatch} \cup {[role |-> r] : r \in {"student", "teacher", "admin"}}
        \cup {[id |-> i] : i \in UserIds}

AssignmentRows == {[teacher_id |-> t, title |-> "HW1"] : t \in UserIds}

AssignmentPatches == {[title |-> "HW2"]} \cup {[teacher_id |-> t] : t \in UserIds}

SubmissionRows == {[assignment_id |-> a, student_id |-> s] : a \in RowIds, s \in UserIds}

GradePatch == [status |-> "graded", grade |-> "A"]

SubmissionPatches == {GradePatch, [file_url |-> 1]}

ResultRows ==
    {[student_id |-> s, teacher_id |-> t, marks_obtained |-> 40, total_marks |-> 50] :
        s \in UserIds, t \in UserIds}

ResultPatches == {[marks_obtained |-> 45]}

PaymentRows == {[student_id |-> s, amount |-> 500] : s \in UserIds}

PaymentPatches == {[status |-> st] : st \in {"pending", "paid", "overdue"}}

AnnouncementRows == {[teacher_id |-> t, title |-> "Notice"] : t \in UserIds}

-----------------------------------------------------------------------------
(* Specifications *)

Init ==
    /\ users = {}
    /\ profiles = {}
    /\ created = {}
    /\ assignments = {}
    /\ assignment_submissions = {}
    /\ results = {}
    /\ payments = {}
    /\ announcements = {}
    /\ objects = {}
    /\ nextUser = 1
    /\ sessions = [c \in SessionIds |-> Idle]
    /\ scenario = [pc |-> "off"]
    /\ last = Outcome("none", "none", 0, "none")

Signups ==
    \E e \in Emails, m \in SignupMeta : SignUp(e, m) /\ UNCHANGED scenario

Accounts ==
    \/ Signups
    \/ \E id \in UserIds : DeleteUser(id)
         /\ UNCHANGED scenario

NextProfiles ==
    \/ Accounts
    \/ \E uid \in UserIds, id \in UserIds, patch \in ProfilePatches :
         UpdateProfile(uid, id, patch)
         /\ UNCHANGED scenario
    \/ \E uid \in UserIds, id \in UserIds :
         InsertProfile(uid, handle_new_user([id |-> id, email |-> "a@edu"],
                                            [full_name |-> NULL, role |-> "teacher"]))
         /\ UNCHANGED scenario
    \/ \E uid \in UserIds, id \in UserIds : DeleteProfile(uid, id)
         /\ UNCHANGED scenario

SpecProfiles == Init /\ [][NextProfiles]_vars

AssignmentRequests ==
    \/ \E uid \in UserIds, row \in AssignmentRows : InsertAssignment(uid, row)
         /\ UNCHANGED scenario
    \/ \E uid \in UserIds, id \in RowIds, patch \in AssignmentPatches :
         UpdateAssignment(uid, id, patch)
         /\ UNCHANGED scenario
    \/ \E uid \in UserIds, id \in RowIds : DeleteAssignment(uid, id)
         /\ UNCHANGED scenario

ResultRequests ==
    \/ \E uid \in UserIds, row \in ResultRows : InsertResult(uid, row)
         /\ UNCHANGED scenario
    \/ \E uid \in UserIds, id \in RowIds, patch \in ResultPatches :
         UpdateResult(uid, id, patch)
         /\ UNCHANGED scenario
    \/ \E uid \in UserIds, id \in RowIds : DeleteResult(uid, id)
         /\ UNCHANGED scenario

PaymentRequests ==
    \/ \E uid \in UserIds, row \in PaymentRows : InsertPayment(uid, row)
         /\ UNCHANGED scenario
    \/ \E uid \in UserIds, id \in RowIds, patch \in PaymentPatches :
         UpdatePayment(uid, id, patch)
         /\ UNCHANGED scenario
    \/ \E uid \in UserIds, id \in RowIds : handlePayment(uid, id)
         /\ UNCHANGED scenario
    \/ \E uid \in UserIds, id \in RowIds : DeletePayment(uid, id)
         /\ UNCHANGED scenario

AnnouncementRequests ==
    \/ \E uid \in UserIds, row \in AnnouncementRows : InsertAnnouncement(uid, row)
         /\ UNCHANGED scenario
    \/ \E uid \in UserIds, id \in RowIds : UpdateAnnouncement(uid, id, [title |-> "Edit"])
         /\ UNCHANGED scenario
    \/ \E uid \in UserIds, id \in RowIds : DeleteAnnouncement(uid, id)
         /\ UNCHANGED scenario

SubmissionRequests ==
    \/ \E uid \in UserIds, row \in SubmissionRows : InsertSubmission(uid, row)
         /\ UNCHANGED scenario
    \/ \E uid \in UserIds, id \in RowIds, patch \in SubmissionPatches :
         UpdateSubmission(uid, id, patch)
         /\ UNCHANGED scenario
    \/ \E uid \in UserIds, id \in RowIds : DeleteSubmission(uid, id)
         /\ UNCHANGED scenario

SubmitHandler ==
    \/ \E c \in SessionIds, uid \in UserIds, a \in RowIds : OpenSubmitDialog(c, uid, a)
         /\ UNCHANGED scenario
    \/ \E c \in SessionIds : SubmitUpload(c)
         /\ UNCHANGED scenario
    \/ \E c \in SessionIds : SubmitInsert(c)
         /\ UNCHANGED scenario

NextAssignments == Signups \/ AssignmentRequests

SpecAssignments == Init /\ [][NextAssignments]_vars

NextPayments == Signups \/ PaymentRequests

SpecPayments == Init /\ [][NextPayments]_vars

NextInserts ==
    \/ Signups
    \/ \E uid \in UserIds, row \in AssignmentRows : InsertAssignment(uid, row)
         /\ UNCHANGED scenario
    \/ \E uid \in UserIds, row \in ResultRows : InsertResult(uid, row)
         /\ UNCHANGED scenario
    \/ \E uid \in UserIds, row \in PaymentRows : InsertPayment(uid, row)
         /\ UNCHANGED scenario

SpecInserts == Init /\ [][NextInserts]_vars

NextAnnouncements == Signups \/ AnnouncementRequests

SpecAnnouncements == Init /\ [][NextAnnouncements]_vars

NextSubmissions ==
    \/ Signups
    \/ \E uid \in UserIds, row \in AssignmentRows : InsertAssignment(uid, row)
         /\ UNCHANGED scenario
    \/ SubmitHandler

SpecSubmissions == Init /\ [][NextSubmissions]_vars

RolePatches == {[role |-> r] : r \in user_role}

NextLookup ==
    \/ Accounts
    \/ \E uid \in UserIds, patch \in RolePatches : UpdateProfile(uid, uid, patch)
         /\ UNCHANGED scenario
    \/ \E uid \in UserIds, id \in UserIds : rpc_is_teacher(uid, id)
         /\ UNCHANGED scenario

SpecLookup == Init /\ [][NextLookup]_vars

NextResults == Signups \/ ResultRequests

SpecResults == Init /\ [][NextResults]_vars

NextProvisioning ==
    \/ \E form \in SignupForms : handleSignup(form)
         /\ UNCHANGED scenario
    \/ \E e \in SignupEmails, m \in ProvisioningMeta : SignUp(e, m)
         /\ UNCHANGED scenario

SpecProvisioning == Init /\ [][NextProvisioning]_vars

NextGrading ==
    \/ Signups
    \/ \E uid \in UserIds, row \in AssignmentRows : InsertAssignment(uid, row)
         /\ UNCHANGED scenario
    \/ SubmissionRequests

SpecGrading == Init /\ [][NextGrading]_vars

\* payments.status is a TEXT column: the values a request may carry in it
StatusTexts == {"pending", "paid", "overdue", "cancelled"}

LedgerRows ==
    {[student_id |-> s, amount |-> 500, status |-> st] :
        s \in UserIds, st \in {"pending", "cancelled"}}

LedgerPatches == {[status |-> st] : st \in StatusTexts}

NextLedger ==
    \/ Signups
    \/ \E uid \in UserIds, row \in LedgerRows : InsertPayment(uid, row)
         /\ UNCHANGED scenario
    \/ \E uid \in UserIds, id \in RowIds, patch \in LedgerPatches :
         UpdatePayment(uid, id, patch)
         /\ UNCHANGED scenario

\* What the simple sign-up form can hold: name is required, role is a select
AuthForms ==
    {[email |-> e, name |-> n, role |-> r] :
        e \in SignupEmails, n \in {"Ann", "Bob"}, r \in user_role}

NextSignupForms ==
    \/ \E form \in SignupForms : handleSignup(form)
         /\ UNCHANGED scenario
    \/ \E form \in AuthForms : Auth_handleSubmit(form)
         /\ UNCHANGED scenario

SpecSignupForms == Init /\ [][NextSignupForms]_vars

\* The Results a teacher (id 2) has entered for a student (id 1)
ResultCandidates ==
    {[id |-> i, student_id |-> 1, teacher_id |-> 2, marks_obtained |-> m,
      total_marks |-> t] :
        i \in RowIds, m \in {2, 5, 8, 10}, t \in {10, 20}}

ResultLists ==
    {list \in SUBSET ResultCandidates :
        /\ Cardinality(list) = Cardinality(Ids(list))
        /\ Ids(list) = 1..Cardinality(list)}

\* A student and a teacher have signed up and the teacher has entered the results
InitAverages ==
    /\ users = {[id |-> 1, email |-> "a@edu"], [id |-> 2, email |-> "b@edu"]}
    /\ profiles =
         {handle_new_user([id |-> 1, email |-> "a@edu"],
                          [full_name |-> NULL, role |-> "student"]),
          handle_new_user([id |-> 2, email |-> "b@edu"],
                          [full_name |-> NULL, role |-> "teacher"])}
    /\ created = {[id |-> 1, role |-> "student"], [id |-> 2, role |-> "teacher"]}
    /\ assignments = {}
    /\ assignment_submissions = {}
    /\ results \in ResultLists
    /\ payments = {}
    /\ announcements = {}
    /\ objects = {}
    /\ nextUser = 3
    /\ sessions = [c \in SessionIds |-> Idle]
    /\ scenario = [pc |-> "off"]
    /\ last = Outcome("none", "none", 0, "none")

NextAverages ==
    \/ \E uid \in UserIds : Results_AverageScore(uid)
         /\ UNCHANGED scenario
    \/ \E uid \in UserIds : StudentResults_AverageScore(uid)
         /\ UNCHANGED scenario

SpecAverages == InitAverages /\ [][NextAverages]_vars

SpecLedger == Init /\ [][NextLedger]_vars

NextDeletions ==
    \/ Accounts
    \/ \E uid \in UserIds, id \in UserIds : DeleteProfile(uid, id)
         /\ UNCHANGED scenario
    \/ \E uid \in UserIds : InsertAssignment(uid, [teacher_id |-> uid, title |-> "HW1"])
         /\ UNCHANGED scenario
    \/ \E uid \in UserIds, id \in RowIds : DeleteAssignment(uid, id)
         /\ UNCHANGED scenario
    \/ \E uid \in UserIds, a \in RowIds :
         InsertSubmission(uid, [assignment_id |-> a, student_id |-> uid])
         /\ UNCHANGED scenario
    \/ \E uid \in UserIds :
         InsertAnnouncement(uid, [teacher_id |-> uid, title |-> "Notice"])
         /\ UNCHANGED scenario

SpecDeletions == Init /\ [][NextDeletions]_vars

\* An update that hands a row to another student
ReassignPatches == {[student_id |-> s] : s \in UserIds}

NextReaders ==
    \/ Signups
    \/ \E uid \in UserIds : InsertAssignment(uid, [teacher_id |-> uid, title |-> "HW1"])
         /\ UNCHANGED scenario
    \/ \E uid \in UserIds, a \in RowIds :
         InsertSubmission(uid, [assignment_id |-> a, student_id |-> uid])
         /\ UNCHANGED scenario
    \/ \E uid \in UserIds, id \in RowIds, patch \in ReassignPatches :
         UpdateSubmission(uid, id, patch)
         /\ UNCHANGED scenario
    \/ \E uid \in UserIds, s \in UserIds :
         InsertResult(uid, [student_id |-> s, teacher_id |-> uid,
                            marks_obtained |-> 40, total_marks |-> 50])
         /\ UNCHANGED scenario
    \/ \E uid \in UserIds, id \in RowIds, patch \in ReassignPatches :
         UpdateResult(uid, id, patch)
         /\ UNCHANGED scenario
    \/ \E uid \in UserIds, row \in PaymentRows : InsertPayment(uid, row)
         /\ UNCHANGED scenario
    \/ \E uid \in UserIds, id \in RowIds, patch \in ReassignPatches :
         UpdatePayment(uid, id, patch)
         /\ UNCHANGED scenario

SpecReaders == Init /\ [][NextReaders]_vars

ResultForms ==
    {[student_id |-> st, marks_obtained |-> m, total_marks |-> t] :
        st \in UserIds, m \in {"-5", "40"}, t \in {"0", "50"}}

NextMarks ==
    \/ Signups
    \/ \E uid \in UserIds, formData \in ResultForms : Results_handleSubmit(uid, formData)
         /\ UNCHANGED scenario
    \/ \E uid \in UserIds, id \in RowIds : DeleteResult(uid, id)
         /\ UNCHANGED scenario

SpecMarks == Init /\ [][NextMarks]_vars

(* The scenario: teacher T creates Assignment A with no due date; student S1
   submits for A, and submits again; T grades the Submission; student S2 reads. *)

ScenarioCreate ==
    /\ scenario.pc = "off"
    /\ \E t \in UserIds, s1 \in UserIds, s2 \in UserIds :
          /\ RoleOf(t) = "teacher" /\ RoleOf(s1) = "student" /\ RoleOf(s2) = "student"
          /\ s1 # s2
          /\ InsertAssignment(t, [teacher_id |-> t, title |-> "HW1", due_date |-> NULL])
          /\ scenario' = [pc |-> "submit", T |-> t, S1 |-> s1, S2 |-> s2,
                          A |-> FreshId(assignments), out |-> <<last'.outcome>>]

ScenarioSubmit ==
    /\ scenario.pc = "submit"
    /\ InsertSubmission(scenario.S1,
                        [assignment_id |-> scenario.A, student_id |-> scenario.S1])
    /\ scenario' = [scenario EXCEPT !.pc = "resubmit",
                                    !.out = Append(@, last'.outcome)]

ScenarioResubmit ==
    /\ scenario.pc = "resubmit"
    /\ InsertSubmission(scenario.S1,
                        [assignment_id |-> scenario.A, student_id |-> scenario.S1])
    /\ scenario' = [scenario EXCEPT !.pc = "grade",
                                    !.out = Append(@, last'.outcome)]

ScenarioGrade ==
    /\ scenario.pc = "grade"
    /\ \E s \in assignment_submissions :
          /\ s.assignment_id = scenario.A
          /\ s.student_id = scenario.S1
          /\ UpdateSubmission(scenario.T, s.id, GradePatch)
    /\ scenario' = [scenario EXCEPT !.pc = "read",
                                    !.out = Append(@, last'.outcome)]

\* S2 selects from assignments and from assignment_submissions
ScenarioRead ==
    /\ scenario.pc = "read"
    /\ scenario' =
         [scenario EXCEPT
            !.pc = "done",
            !.out = @ \o
               <<IF \E a \in VisibleAssignments(scenario.S2) : a.id = scenario.A
                 THEN "visible" ELSE "hidden",
                 IF \E s \in VisibleSubmissions(scenario.S2) :
                       s.assignment_id = scenario.A /\ s.student_id = scenario.S1
                 THEN "visible" ELSE "hidden">>]
    /\ last' = Outcome("select", "assignment_submissions", scenario.S2, "ok")
    /\ UNCHANGED <<users, profiles, created, tables, objects, nextUser, sessions>>

\* Before the scenario starts: signups, and Assignments and Submissions of others
ScenarioSetup ==
    /\ scenario.pc = "off"
    /\ \/ Signups
       \/ \E uid \in UserIds, row \in AssignmentRows : InsertAssignment(uid, row)
            /\ UNCHANGED scenario
       \/ \E uid \in UserIds, row \in SubmissionRows : InsertSubmission(uid, row)
            /\ UNCHANGED scenario

NextScenario ==
    \/ ScenarioSetup
    \/ ScenarioCreate
    \/ ScenarioSubmit
    \/ ScenarioResubmit
    \/ ScenarioGrade
    \/ ScenarioRead

SpecScenario == Init /\ [][NextScenario]_vars

-----------------------------------------------------------------------------
(* Claims *)

\* C1: an insert of an Assignment, a Result or a Payment by a requester whose
\* Profile role is not teacher (a student, or an identity with no Profile) is
\* rejected whatever the payload, and the three tables are left unchanged.
NonTeacherInsertRejected ==
    [][(/\ last'.op = "insert"
        /\ last'.table \in {"assignments", "results", "payments"}
        /\ RoleOf(last'.uid) # "teacher")
       => (/\ last'.outcome = "rls_violation"
           /\ UNCHANGED <<assignments, results, payments>>)]_vars

\* A student's insert of a Payment was rejected.
StudentInsertRejected ==
    /\ last.op = "insert"
    /\ last.table = "payments"
    /\ RoleOf(last.uid) = "student"
    /\ last.outcome = "rls_violation"

\* C2: a teacher can read every Result and Payment row; a student can read a
\* Result or Payment row only when its student_id is the student's own id.
ReadScope ==
    /\ \A t \in UserIds :
         RoleOf(t) = "teacher" =>
            /\ VisibleResults(t) = results
            /\ VisiblePayments(t) = payments
    /\ \A s \in UserIds :
         RoleOf(s) = "student" =>
            /\ \A r \in VisibleResults(s) : r.student_id = s
            /\ \A p \in VisiblePayments(s) : p.student_id = s

\* A teacher and two students exist; one student has a Result and a Payment, which
\* the teacher reads and the other student does not.
OtherStudentsRowsHidden ==
    \E t \in UserIds, s1 \in UserIds, s2 \in UserIds :
        /\ RoleOf(t) = "teacher" /\ RoleOf(s1) = "student" /\ RoleOf(s2) = "student"
        /\ s1 # s2
        /\ \E r \in results : r.student_id = s1 /\ r \in VisibleResults(t)
                                /\ r \notin VisibleResults(s2)
        /\ \E p \in payments : p.student_id = s1 /\ p \in VisiblePayments(t)
                                 /\ p \notin VisiblePayments(s2)

\* C4: a Profile's role is fixed at creation: no Profile's role differs from the
\* role it was created with (a requester's update of their own row cannot change it).
RoleFixedAtCreation ==
    \A p \in profiles : \A c \in created : c.id = p.id => c.role = p.role

\* C7: Identities and Profiles are in bijection by id: every Identity has exactly
\* one Profile with its id and every Profile exactly one Identity.
IdentityProfileBijection ==
    /\ Ids(users) = Ids(profiles)
    /\ Cardinality(users) = Cardinality(Ids(users))
    /\ Cardinality(profiles) = Cardinality(Ids(profiles))

\* An Identity was deleted, two others remain, and the last request on profiles
\* came from an id that has no Identity.
AfterSignupsAndDeletion ==
    /\ Cardinality(users) >= 2
    /\ nextUser > Cardinality(users) + 1
    /\ last.table = "profiles"
    /\ last.uid \notin Ids(users)

\* C8: provisioning is all-or-nothing: when synthesizing the Profile fails (the
\* metadata's role is neither student nor teacher) the signup fails, and the state
\* afterwards holds neither the new Identity nor a Profile for it.
ProvisioningAllOrNothing ==
    [][/\ \A e \in Emails, m \in SignupMeta :
            (CastRoleFails(m) /\ SignUp(e, m)) =>
                /\ last'.outcome = "error"
                /\ UNCHANGED <<users, profiles>>
       /\ (last'.op = "signup" /\ last'.outcome = "error") =>
            /\ UNCHANGED <<users, profiles>>
            /\ last'.uid \notin Ids(users') \cup Ids(profiles')]_vars

\* A signup failed and left no Identity behind, next to an Identity that exists.
FailedSignupLeftNothing ==
    /\ last.op = "signup"
    /\ last.outcome = "error"
    /\ last.uid \notin Ids(users) \cup Ids(profiles)
    /\ users # {}

AssignmentOwnerOnly ==
    [][/\ \A uid \in UserIds : VisibleAssignments(uid) = assignments
       /\ \A a \in assignments :
            a \notin assignments' =>
                /\ last'.op \in {"update", "delete"}
                /\ last'.table = "assignments"
                /\ last'.outcome = "ok"
                /\ last'.uid = a.teacher_id
       /\ (/\ last'.op \in {"update", "delete"}
           /\ last'.table = "assignments"
           /\ \A a \in assignments : a.teacher_id # last'.uid)
          => (assignments' = assignments /\ last'.outcome = "no_rows")]_vars

\* A teacher's update changed nothing while every Assignment of the table is
\* another teacher's.
OtherTeacherUpdateDenied ==
    /\ last.op = "update"
    /\ last.table = "assignments"
    /\ last.outcome = "no_rows"
    /\ RoleOf(last.uid) = "teacher"
    /\ Ids(assignments) = RowIds
    /\ \A a \in assignments :
          a.teacher_id # last.uid /\ RoleOf(a.teacher_id) = "teacher"

\* C3: under every interleaving of the steps of concurrent submit handlers, the
\* table holds at most one Submission per (assignment_id, student_id), and the
\* insert of a handler that finds a Submission of its pair is rejected.
OneSubmissionPerPair ==
    [][/\ \A s1 \in assignment_submissions', s2 \in assignment_submissions' :
            (s1.assignment_id = s2.assignment_id /\ s1.student_id = s2.student_id)
            => s1 = s2
       /\ \A c \in SessionIds :
            (/\ SubmitInsert(c)
             /\ \E s \in assignment_submissions :
                   /\ s.assignment_id = sessions[c].assignmentId
                   /\ s.student_id = sessions[c].uid)
            => /\ assignment_submissions' = assignment_submissions
               /\ last'.outcome = "unique_violation"
               /\ sessions'[c].toast = "error"]_vars

\* Two handlers of one student for one Assignment both passed the "no submission
\* yet" check; the first insert was accepted and the second rejected as duplicate.
SecondWriterRejected ==
    /\ last.op = "insert"
    /\ last.table = "assignment_submissions"
    /\ last.outcome = "unique_violation"
    /\ \E c1 \in SessionIds, c2 \in SessionIds :
          /\ sessions[c1].pc = "done" /\ sessions[c2].pc = "done"
          /\ sessions[c1].uid = sessions[c2].uid
          /\ sessions[c1].assignmentId = sessions[c2].assignmentId
          /\ sessions[c1].toast = "success"
          /\ sessions[c2].toast = "error"

\* C9: in the scenario the outcomes are, in order: create accepted, first submit
\* accepted, second submit rejected as duplicate, grading update accepted,
\* Assignment A visible to S2, S1's Submission not visible to S2.
ScenarioExpected == <<"ok", "ok", "unique_violation", "ok", "visible", "hidden">>

ScenarioOutcomes ==
    scenario.pc # "off" =>
        /\ scenario.out = SubSeq(ScenarioExpected, 1, Len(scenario.out))
        /\ scenario.pc = "done" => Len(scenario.out) = Len(ScenarioExpected)

\* The scenario ran to its end, next to an Assignment made before it started.
ScenarioDone ==
    /\ scenario.pc = "done"
    /\ scenario.out = ScenarioExpected
    /\ Cardinality(assignments) = 2

\* C11: an update of a Submission takes effect only for a teacher requester: a
\* Submission row changes only in an update step of a teacher, and an update sent by
\* a requester who is not a teacher (its author or another student) changes no field
\* of any Submission.
SubmissionUpdateTeacherOnly ==
    [][/\ \A s \in assignment_submissions :
            s \notin assignment_submissions' =>
                /\ last'.op = "update"
                /\ last'.table = "assignment_submissions"
                /\ last'.outcome = "ok"
                /\ RoleOf(last'.uid) = "teacher"
       /\ (/\ last'.op = "update"
           /\ last'.table = "assignment_submissions"
           /\ RoleOf(last'.uid) # "teacher")
          => (/\ assignment_submissions' = assignment_submissions
              /\ last'.outcome = "no_rows")]_vars

\* A student who authored one of the two Submissions of the table sent an update; it
\* changed nothing, and both Submissions are as created.
StudentUpdateDenied ==
    /\ last.op = "update"
    /\ last.table = "assignment_submissions"
    /\ last.outcome = "no_rows"
    /\ RoleOf(last.uid) = "student"
    /\ Ids(assignment_submissions) = RowIds
    /\ \E s \in assignment_submissions : s.student_id = last.uid
    /\ \A s \in assignment_submissions :
          s.status = "submitted" /\ s.grade = NULL /\ s.file_url = 0

\* C12: a Profile row is readable by a requester exactly when the requester's id is
\* the row's id or the requester's role is teacher.
ProfileReadScope ==
    \A uid \in UserIds : \A p \in profiles :
        p \in VisibleProfiles(uid) <=> (uid = p.id \/ RoleOf(uid) = "teacher")

\* Of three Profiles, a student reads only their own and a teacher reads all three.
StudentReadsOwnTeacherReadsAll ==
    /\ Cardinality(profiles) = 3
    /\ \E s \in UserIds :
          /\ RoleOf(s) = "student"
          /\ VisibleProfiles(s) = {p \in profiles : p.id = s}
    /\ \E t \in UserIds :
          /\ RoleOf(t) = "teacher"
          /\ VisibleProfiles(t) = profiles

ProvisionedProfile ==
    [][\A e \in SignupEmails :
         \A m \in ProvisioningMeta \cup {handleSignupMetadata(f) : f \in SignupForms} :
            SignUp(e, m) =>
               \A u \in users' \ users :
                  /\ u.email = e
                  /\ \E p \in profiles' \ profiles :
                        /\ p.id = u.id
                        /\ p.email = u.email
                        /\ p.full_name = IF m.full_name # NULL THEN m.full_name ELSE "User"
                        /\ p.role = IF m.role # NULL THEN m.role ELSE "student"
                  /\ Cardinality({p \in profiles' : p.id = u.id}) = 1]_vars

\* A signup without metadata got the placeholder name and the role student, next to
\* a Profile that got the name and the role teacher of its metadata.
DefaultsAndGivenValues ==
    /\ last.op = "signup"
    /\ last.outcome = "ok"
    /\ \E p \in profiles :
          /\ p.id = last.uid
          /\ p.email = "b@edu"
          /\ p.full_name = "User"
          /\ p.role = "student"
    /\ \E p \in profiles : p.full_name = "Ann" /\ p.role = "teacher" /\ p.email = "a@edu"

\* C15: when the signup metadata carries roll_number, course or department, the
\* Profile created by the trigger holds those values in its roll_number, course and
\* department fields.
RoleFieldsCopied ==
    [][\A f \in SignupForms :
         handleSignup(f) =>
            \A u \in users' \ users :
               \E p \in profiles' :
                  /\ p.id = u.id
                  /\ p.roll_number = handleSignupMetadata(f).roll_number
                  /\ p.course = handleSignupMetadata(f).course
                  /\ p.department = handleSignupMetadata(f).department]_vars

\* C16: Payment status transitions are one-directional: the only status changes
\* that occur are pending to paid and pending to overdue; a paid Payment is never
\* returned to pending by any request.
StatusOneDirectional ==
    [][\A p \in payments : \A q \in payments' :
          (p.id = q.id /\ p.status # q.status) =>
             (p.status = "pending" /\ q.status \in {"paid", "overdue"})]_vars

\* C17: every write the rules deny is surfaced as a rejected write: an update of a
\* Payment sent by a requester who is not a teacher leaves payments unchanged and
\* returns an error outcome, and the "Pay Now" handler then reports an error, never
\* success.
DeniedWriteSurfaced ==
    [][/\ \A uid \in UserIds, id \in Ids(payments), patch \in PaymentPatches :
            (RoleOf(uid) # "teacher" /\ UpdatePayment(uid, id, patch)) =>
                /\ payments' = payments
                /\ last'.outcome \in ErrorOutcomes
       /\ \A uid \in UserIds, id \in Ids(payments) :
            (RoleOf(uid) # "teacher" /\ handlePayment(uid, id)) =>
                /\ payments' = payments
                /\ last'.outcome \in ErrorOutcomes
                /\ last'.toast = "error"]_vars

\* C18: an insert that references a nonexistent Profile or Assignment creates no
\* row: every row an insert adds has its teacher_id and student_id among the ids of
\* the Profiles and its assignment_id among the ids of the Assignments.
DanglingInsertRejected ==
    [][last'.op = "insert" =>
         /\ \A a \in assignments' \ assignments : a.teacher_id \in Ids(profiles)
         /\ \A r \in results' \ results :
               r.teacher_id \in Ids(profiles) /\ r.student_id \in Ids(profiles)
         /\ \A q \in payments' \ payments : q.student_id \in Ids(profiles)
         /\ \A b \in assignment_submissions' \ assignment_submissions :
               b.student_id \in Ids(profiles) /\ b.assignment_id \in Ids(assignments)
         /\ \A n \in announcements' \ announcements :
               n.teacher_id \in Ids(profiles)]_vars

\* C19: is_teacher(id) is a side-effect-free lookup: whoever the requester is, it
\* returns true exactly when a Profile with that id and role teacher exists (false
\* for a student's id and for an id with no Profile), and it leaves every table
\* unchanged.
IsTeacherLookup ==
    [][\A uid \in UserIds, id \in UserIds :
          rpc_is_teacher(uid, id) =>
             /\ last'.outcome \in {"true", "false"}
             /\ last'.outcome = "true" <=>
                   \E p \in profiles : p.id = id /\ p.role = "teacher"
             /\ RoleOf(id) \in {"student", NULL} => last'.outcome = "false"
             /\ UNCHANGED <<users, profiles, created, tables, objects>>]_vars

\* A student asked about the teacher, whose Profile the student cannot read, and
\* got true.
LookupPastThePolicies ==
    /\ last.op = "rpc"
    /\ last.outcome = "true"
    /\ RoleOf(last.uid) = "student"
    /\ RoleOf(last.arg) = "teacher"
    /\ \A p \in VisibleProfiles(last.uid) : p.id # last.arg
    /\ Cardinality(profiles) = 2

\* C20: evaluating any policy for any requester and row ends in allow or deny, with
\* the decision the policy's expression has; at most one level of nesting is
\* needed: the teacher check of the Profile read policy evaluates no policy, and the
\* teacher sub-selects of the other tables evaluate the Profile read policies once.
PolicyEvaluationDecides ==
    \A name \in PolicyCatalog, uid \in UserIds, row \in CandidateRows :
        LET decision == EvalPolicy(name, uid, row, 0)
        IN /\ decision \in {"allow", "deny"}
           /\ decision = "allow" <=> DirectPolicy(name, uid, row)
           /\ EvalPolicy(name, uid, row, MaxPolicyDepth - 1) = decision
           /\ name \in ProfilesSelectPolicies =>
                 EvalPolicy(name, uid, row, MaxPolicyDepth) = decision

\* Three Profiles exist; the teacher sub-select of a policy allows a teacher and
\* denies a student, and the Profile read policy allows the teacher on the
\* student's row.
NestedEvaluationDecided ==
    /\ Cardinality(profiles) = 3
    /\ \E t \in UserIds, st \in UserIds :
          /\ RoleOf(t) = "teacher" /\ RoleOf(st) = "student"
          /\ TeacherSubselect(t, 0) = "allow"
          /\ TeacherSubselect(st, 0) = "deny"
          /\ \E row \in CandidateRows :
                /\ row.id = st
                /\ EvalPolicy("profiles_select_teachers", t, row, 0) = "allow"
                /\ EvalPolicy("profiles_select_teachers", st, row, 0) = "deny"


\* C21: in every reachable state every Payment's status is one of pending, paid,
\* overdue; no accepted insert or update stores any other status value.
PaymentStatusDomain ==
    \A p \in payments : p.status \in {"pending", "paid", "overdue"}

\* C22: the pending to paid transition stamps paid_date: in every reachable state a
\* Payment with status paid has paid_date set, and a Payment with status pending
\* has paid_date unset.
PaidDateStamped ==
    \A p \in payments :
        /\ p.status = "paid" => p.paid_date # NULL
        /\ p.status = "pending" => p.paid_date = NULL


\* C23: in every reachable state every Result has marks_obtained >= 0 and
\* total_marks > 0, so that the percentage is well-defined; an insert of a Result
\* with negative marks or with total_marks = 0 is not stored.
MarksWellDefined ==
    \A r \in results : r.marks_obtained >= 0 /\ r.total_marks > 0


\* C24: every Submission is created by a student Profile: in every reachable state
\* the student_id of every Submission is the id of a Profile whose role is student,
\* and a Submission insert made by a teacher identity with student_id set to the
\* teacher's own id is rejected.
SubmissionByStudent ==
    \A b \in assignment_submissions : RoleOf(b.student_id) = "student"


\* C25: ownership attribution is truthful: every Assignment, Result and
\* Announcement row created by an accepted insert has teacher_id equal to the id
\* of the requester that made the insert.
OwnershipTruthful ==
    [][last'.op = "insert" =>
         /\ \A a \in assignments' \ assignments : a.teacher_id = last'.uid
         /\ \A r \in results' \ results : r.teacher_id = last'.uid
         /\ \A n \in announcements' \ announcements : n.teacher_id = last'.uid]_vars


\* C26: for every signup form, a signup that completes with role R chosen leaves a
\* Profile for the new Identity whose role is R and whose full_name is the name
\* entered in the form.
SignupKeepsRoleAndName ==
    [][/\ \A f \in SignupForms :
            handleSignup(f) =>
               \A u \in users' \ users :
                  \E p \in profiles' :
                     p.id = u.id /\ p.role = f.role /\ p.full_name = f.fullName
       /\ \A f \in AuthForms :
            Auth_handleSubmit(f) =>
               \A u \in users' \ users :
                  \E p \in profiles' :
                     p.id = u.id /\ p.role = f.role /\ p.full_name = f.name]_vars


ReferentialIntegrity ==
    /\ \A a \in assignments : a.teacher_id \in Ids(profiles)
    /\ \A r \in results : r.teacher_id \in Ids(profiles) /\ r.student_id \in Ids(profiles)
    /\ \A n \in announcements : n.teacher_id \in Ids(profiles)
    /\ \A b \in assignment_submissions :
          b.student_id \in Ids(profiles) /\ b.assignment_id \in Ids(assignments)
    /\ \A q \in payments : q.student_id \in Ids(profiles)

\* C29: a submit operation whose row insert is rejected leaves the whole state as
\* it was before the operation, object storage included: once the handler is past
\* its insert, no uploaded file remains that no Submission row references.
NoUnreferencedUpload ==
    \A o \in objects :
        \/ \E b \in assignment_submissions : b.file_url = o.stamp
        \/ \E c \in SessionIds :
              sessions[c].pc = "uploaded" /\ sessions[c].file_url = o.stamp

\* C30: the two student views compute the same 'Average Score' for the same
\* non-empty list of Results with total_marks > 0: the mean of the per-result
\* percentages a view has just shown equals the ratio of summed marks_obtained to
\* summed total_marks that the other view computes for that list, and conversely.
AverageScoresAgree ==
    last.op = "render" =>
        LET list == {r \in VisibleResults(last.uid) : r.student_id = last.uid}
        IN (list # {} /\ \A r \in list : r.total_marks > 0) =>
              /\ last.table = "Results" =>
                    RatEq(last.value, StudentResults_Ratio(list))
              /\ last.table = "StudentResults" =>
                    RatEq(last.value, Results_Mean(list))

====
